---- MODULE Spec2Model ----
(***************************************************************************)
(* Model of py-garden/fs_utils: the directory-change watcher.              *)
(*                                                                         *)
(*   src/main.py                                  filter, capture, store,  *)
(*                                                diff (library versions)  *)
(*   src/directory_modifiction_callback_system.py store, diff and the      *)
(*                                                watch loop               *)
(*                                                                         *)
(* A Python dict is a finite sequence of <<key, value>> pairs with         *)
(* pairwise different keys, in insertion order; a Python list is a         *)
(* sequence.                                                               *)
(***************************************************************************)
EXTENDS Integers, Sequences, FiniteSets, TLC

VARIABLES
    \* --- the diff functions applied to drawn inputs (SpecDiff)
    previous,        \* last_mod_times argument
    current,         \* current_mod_times argument
    modified_files,  \* result of find_modified_files, <<>> before the call
    new_files,       \* result of find_new_files, <<>> before the call
    dpc,             \* which of the two calls have returned
    \* --- the path filter applied to drawn inputs (SpecFilter)
    whitelist,       \* make_regex_filter's whitelist: a list of patterns
    blacklist,       \* make_regex_filter's blacklist
    fpath,           \* the path under test
    accepted,        \* None, or Some(what _filter(fpath) returned)
    captured,        \* None, or Some(the dict get_modification_times returned)
    fpc,             \* which calls have returned
    \* --- the snapshot store
    store,           \* the files: location -> NoFile or the file's text
    location,        \* the mod_times_path the calls of SpecStore are given
    loaded,          \* None, or Some(result of the load since the last save)
    lastSaved,       \* history: None, or Some(the dict last passed to save)
    savedKeys,       \* history: every key ever written to the location
    \* --- the watch loop (Spec)
    watch_directory, \* start_watching_directory's first argument
    args,            \* the module global args: None when not defined, or
                     \* Some([base_dir |-> d])
    isdir,           \* the directories that exist
    files,           \* the files under args.base_dir: name -> mtime, 0: no file
    pc,              \* where start_watching_directory stands
    base_dir_last_modified_times,     \* local of the loop (line 67)
    base_dir_current_modified_times,  \* local of the loop (line 68)
    w_modified_files,                 \* local of the loop (line 69)
    exc,             \* the exception that ended the call, with the step it left
    recordAtLoad,    \* history: None, or Some(the file the cycle's load found)
    capturedDir,     \* history: None, or Some(the directory the cycle walked)
    calls,           \* history: the functions the cycle called on a change
    persisted,       \* history: None, or Some(the dict the cycle saved)
    filesAtSave,     \* history: None, or Some(the files as they were when
                     \* the last save walked the directory)
    stop_requested,  \* whether the caller has asked the loop to stop
    \* --- get_modification_times applied to drawn directories (SpecCapture)
    root_kind,       \* what the directory argument names: "dir", "file" or
                     \* "missing"
    tree,            \* the entries below it: path -> entry
    capture_filter,  \* the path_filter argument
    capture_result,  \* None, or Some(outcome of main.get_modification_times)
    cb_capture_result, \* None, or Some(outcome of the callback module's
                     \* get_modification_times)
    \* --- save_mod_times step by step (SpecSave)
    save_pc,         \* "idle", "writing" (the file is open), "interrupted"
    pending,         \* the text json.dump has still to write
    prior_record,    \* history: the record at the location when the save began
    \* --- two watch loops side by side (SpecTwoLoops): loop -> ...
    t_args,          \* the base_dir of the loop's args
    t_files,         \* directory -> the files under it: name -> mtime
    t_pc,            \* where the loop stands
    t_last,          \* its base_dir_last_modified_times
    t_cur,           \* its base_dir_current_modified_times
    t_mod,           \* its modified_files
    t_own            \* history: None, or Some(the dict the loop saved last)

diffVars == <<previous, current, modified_files, new_files, dpc>>
filterVars == <<whitelist, blacklist, fpath, accepted, captured, fpc>>

storeVars == <<store, location, loaded, lastSaved, savedKeys>>

loopVars == <<watch_directory, args, isdir, files, pc,
              base_dir_last_modified_times, base_dir_current_modified_times,
              w_modified_files, exc, recordAtLoad, capturedDir, calls, persisted,
              filesAtSave, stop_requested>>

captureVars == <<root_kind, tree, capture_filter, capture_result, cb_capture_result>>

saveVars == <<save_pc, pending, prior_record>>
twoVars == <<t_args, t_files, t_pc, t_last, t_cur, t_mod, t_own>>

vars == <<diffVars, filterVars, storeVars, loopVars, captureVars, saveVars, twoVars>>

----------------------------------------------------------------------------
(* Bounds *)

\* number of distinct file paths the drawn snapshots range over
NumKeys == 2
\* modification timestamps range over 1..MaxTime
MaxTime == 2
\* paths under test are strings of at most MaxPathLen characters
MaxPathLen == 2
\* whitelists and blacklists hold at most MaxPatterns patterns
MaxPatterns == 2

----------------------------------------------------------------------------
(* Python dicts and lists *)

\* the first n of the path names used as dict keys
PathNames == <<"a.txt", "b.txt", "c.txt", "d.txt">>
KeySet(n) == {PathNames[i] : i \in 1..n}
Times == 1..MaxTime

\* Python's None, and a present value v, as the result of dict.get
None == <<>>
Some(v) == <<v>>

DictKeys(d) == {d[i][1] : i \in 1..Len(d)}
HasKey(d, k) == \E i \in 1..Len(d) : d[i][1] = k
IndexOf(d, k) == CHOOSE i \in 1..Len(d) : d[i][1] = k
\* d.get(k)
DictGet(d, k) == IF HasKey(d, k) THEN Some(d[IndexOf(d, k)][2]) ELSE None
\* d[k] = v : replaces in place, or inserts at the end
DictSet(d, k, v) ==
    IF HasKey(d, k)
    THEN [i \in 1..Len(d) |-> IF d[i][1] = k THEN <<k, v>> ELSE d[i]]
    ELSE Append(d, <<k, v>>)
\* dict equality (==) ignores insertion order
DictEq(d, e) ==
    /\ DictKeys(d) = DictKeys(e)
    /\ \A k \in DictKeys(d) : DictGet(d, k) = DictGet(e, k)

IsDict(s) == \A i, j \in 1..Len(s) : s[i][1] = s[j][1] => i = j
\* every dict with at most n keys out of keys and values out of vals
AllDicts(keys, vals, n) ==
    {s \in UNION {[1..m -> keys \X vals] : m \in 0..n} : IsDict(s)}

ListSet(l) == {l[i] : i \in 1..Len(l)}
\* how often x occurs in list l
Count(l, x) == Cardinality({i \in 1..Len(l) : l[i] = x})

----------------------------------------------------------------------------
(* Differ: src/main.py *)

\* faulty variants of the test of line 249
is_modified_ge(last_time, current_time) ==
    last_time = None \/ current_time >= last_time[1]
is_modified_known_only(last_time, current_time) ==
    last_time # None /\ current_time > last_time[1]

\* the test that decides whether a path is reported as modified
is_modified(last_time, current_time) ==
    last_time = None \/ current_time > last_time[1]

RECURSIVE find_modified_files_from(_, _, _, _)
\* the for loop of find_modified_files, from item i on, with the list so far
find_modified_files_from(last_mod_times, current_mod_times, i, acc) ==
    IF i > Len(current_mod_times) THEN acc
    ELSE LET filepath == current_mod_times[i][1]
             current_time == current_mod_times[i][2]
             last_time == DictGet(last_mod_times, filepath)
         IN  find_modified_files_from(last_mod_times, current_mod_times, i + 1,
                 IF is_modified(last_time, current_time)
                 THEN Append(acc, filepath) ELSE acc)

find_modified_files(last_mod_times, current_mod_times) ==
    find_modified_files_from(last_mod_times, current_mod_times, 1, <<>>)

\* faulty variant of the test of line 269
is_new_negated(last_mod_times, filepath) == HasKey(last_mod_times, filepath)

\* the test that decides whether a path is reported as new
is_new(last_mod_times, filepath) == ~HasKey(last_mod_times, filepath)

RECURSIVE find_new_files_from(_, _, _, _)
find_new_files_from(last_mod_times, current_mod_times, i, acc) ==
    IF i > Len(current_mod_times) THEN acc
    ELSE LET filepath == current_mod_times[i][1]
         IN  find_new_files_from(last_mod_times, current_mod_times, i + 1,
                 IF is_new(last_mod_times, filepath)
                 THEN Append(acc, filepath) ELSE acc)

find_new_files(last_mod_times, current_mod_times) ==
    find_new_files_from(last_mod_times, current_mod_times, 1, <<>>)

----------------------------------------------------------------------------
(* PathFilter: src/main.py.  A string is a sequence of characters; a       *)
(* pattern is a regular expression made of literal characters and the      *)
(* end-of-string assertion "$".                                            *)

PathChars == {"a", "b"}
PatternStrings == {<<>>, <<"a">>, <<"b">>, <<"b", "$">>}

RECURSIVE re_match_at(_, _, _, _)
\* whether pattern r, from its atom k on, matches string s at position i
re_match_at(r, k, s, i) ==
    IF k > Len(r) THEN TRUE
    ELSE IF r[k] = "$" THEN i = Len(s) + 1 /\ re_match_at(r, k + 1, s, i)
    ELSE i <= Len(s) /\ s[i] = r[k] /\ re_match_at(r, k + 1, s, i + 1)

\* r.search(s): the pattern matches at some position of s
re_search(r, s) == \E i \in 1..(Len(s) + 1) : re_match_at(r, 1, s, i)

RECURSIVE any_search(_, _, _)
\* any(r.search(path) for r in patterns), from pattern k on
any_search(patterns, k, path) ==
    IF k > Len(patterns) THEN FALSE
    ELSE IF re_search(patterns[k], path) THEN TRUE
    ELSE any_search(patterns, k + 1, path)

\* faulty variant: the blacklist is consulted only when the whitelist did not match
filter_whitelist_wins(whitelist_re, blacklist_re, path) ==
    IF any_search(whitelist_re, 1, path) THEN TRUE
    ELSE IF any_search(blacklist_re, 1, path) THEN FALSE
    ELSE TRUE

\* the closure _filter of make_regex_filter
filter(whitelist_re, blacklist_re, path) ==
    IF ~any_search(whitelist_re, 1, path) THEN FALSE
    ELSE IF any_search(blacklist_re, 1, path) THEN FALSE
    ELSE TRUE

\* a filter value: the closure with its two compiled lists
make_regex_filter(wl, bl) ==
    [kind |-> "regex", whitelist_re |-> wl, blacklist_re |-> bl]

\* the default path_filter of get_modification_times: lambda _: True
DefaultPathFilter == [kind |-> "lambda"]

\* faulty variant: the default argument rejects instead
call_filter_default_false(path_filter, path) ==
    IF path_filter.kind = "lambda" THEN FALSE
    ELSE filter(path_filter.whitelist_re, path_filter.blacklist_re, path)

\* path_filter(path)
call_filter(path_filter, path) ==
    IF path_filter.kind = "lambda" THEN TRUE
    ELSE filter(path_filter.whitelist_re, path_filter.blacklist_re, path)

----------------------------------------------------------------------------
(* Snapshot capture: src/main.py.  walk is what os.walk and os.path.getmtime *)
(* yield for the directory: the list of <<filepath, mtime>> of its files.   *)

RECURSIVE get_modification_times_from(_, _, _, _)
get_modification_times_from(walk, path_filter, i, mod_times) ==
    IF i > Len(walk) THEN mod_times
    ELSE get_modification_times_from(walk, path_filter, i + 1,
             IF call_filter(path_filter, walk[i][1])
             THEN DictSet(mod_times, walk[i][1], walk[i][2])
             ELSE mod_times)

get_modification_times(walk, path_filter) ==
    get_modification_times_from(walk, path_filter, 1, <<>>)

----------------------------------------------------------------------------
(* SnapshotStore: src/main.py.  A file's text is a sequence of JSON tokens *)
(* <<kind, text>>; json.dump writes a dict as an object of string : number *)
(* members, json.load parses one.                                          *)

BASE_DIR_LAST_MOD_FILE == ".base_dir_last_modified.json"
Locations == {BASE_DIR_LAST_MOD_FILE, "other_mod_times.json"}
\* a location holds no file, or a file with its text
NoFile == <<>>
File(text) == <<text>>

\* the text json writes for a timestamp, and the number json reads from it
FloatText == <<"1.0", "2.0", "3.0", "4.0", "5.0", "6.0", "7.0", "8.0">>
float_repr(t) == FloatText[t]
float_parse(text) == CHOOSE t \in 1..Len(FloatText) : FloatText[t] = text
IsFloatText(text) == \E t \in 1..Len(FloatText) : FloatText[t] = text

Punct(c) == <<"punct", c>>

RECURSIVE json_dump_members(_, _)
\* the members of the object from item i on, separated by commas
json_dump_members(d, i) ==
    IF i > Len(d) THEN <<>>
    ELSE (IF i > 1 THEN <<Punct(",")>> ELSE <<>>)
         \o <<<<"string", d[i][1]>>, Punct(":"), <<"number", float_repr(d[i][2])>>>>
         \o json_dump_members(d, i + 1)

\* json.dump(mod_times, f): the text written
json_dump(d) == <<Punct("{")>> \o json_dump_members(d, 1) \o <<Punct("}")>>

\* the text is one complete object of n string : number members
json_well_formed(text) ==
    /\ Len(text) >= 2
    /\ text[1] = Punct("{")
    /\ text[Len(text)] = Punct("}")
    /\ \/ Len(text) = 2
       \/ /\ (Len(text) - 1) % 4 = 0
          /\ \A m \in 1..((Len(text) - 1) \div 4) :
                /\ text[4 * m - 2][1] = "string"
                /\ text[4 * m - 1] = Punct(":")
                /\ text[4 * m][1] = "number"
                /\ IsFloatText(text[4 * m][2])
                /\ m < (Len(text) - 1) \div 4 => text[4 * m + 1] = Punct(",")

RECURSIVE json_load_members(_, _, _)
\* the dict built from member m on: a repeated key keeps its last value
json_load_members(text, m, d) ==
    IF 4 * m > Len(text) THEN d
    ELSE json_load_members(text, m + 1,
             DictSet(d, text[4 * m - 2][2], float_parse(text[4 * m][2])))

\* json.load(f): the dict, or JSONDecodeError raised
Returned(v) == [raised |-> "", value |-> v]
Raised(e) == [raised |-> e, value |-> <<>>]
json_load(text) ==
    IF json_well_formed(text)
    THEN Returned(json_load_members(text, 1, <<>>))
    ELSE Raised("JSONDecodeError")

\* load_last_mod_times(mod_times_path) on the files fs
load_last_mod_times(fs, mod_times_path) ==
    IF fs[mod_times_path] # NoFile
    THEN json_load(fs[mod_times_path][1])
    ELSE Returned(<<>>)

\* faulty variant: the file is opened for appending
save_mod_times_append(fs, mod_times, mod_times_path) ==
    [fs EXCEPT ![mod_times_path] =
        File((IF @ = NoFile THEN <<>> ELSE @[1]) \o json_dump(mod_times))]

\* save_mod_times(mod_times, mod_times_path): the files afterwards; open(.., "w")
\* creates or truncates the file, json.dump writes the dict
save_mod_times(fs, mod_times, mod_times_path) ==
    [fs EXCEPT ![mod_times_path] = File(json_dump(mod_times))]

----------------------------------------------------------------------------
(* src/directory_modifiction_callback_system.py: the module's own copies   *)
(* of capture, store and diff, and the file system they read.              *)

Dirs == {"base", "gen"}
\* the file names that can exist under args.base_dir, in the order os.walk
\* lists them
WalkOrder == <<"a.txt", "b.txt">>
FileNames == {WalkOrder[i] : i \in 1..Len(WalkOrder)}

\* os.path.join(root, filename)
JoinedBase == <<"base/a.txt", "base/b.txt", "base/c.txt", "base/d.txt">>
JoinedGen == <<"gen/a.txt", "gen/b.txt", "gen/c.txt", "gen/d.txt">>
path_join(root, filename) ==
    LET i == CHOOSE j \in 1..Len(PathNames) : PathNames[j] = filename
    IN  IF root = "base" THEN JoinedBase[i] ELSE JoinedGen[i]

RECURSIVE os_walk_from(_, _, _)
\* the files os.walk(directory) lists, each with what os.path.getmtime gives;
\* a directory that does not exist lists nothing (os.walk ignores the error)
os_walk_from(fls, directory, i) ==
    IF i > Len(WalkOrder) THEN <<>>
    ELSE (IF fls[WalkOrder[i]] > 0
          THEN <<<<path_join(directory, WalkOrder[i]), fls[WalkOrder[i]]>>>>
          ELSE <<>>)
         \o os_walk_from(fls, directory, i + 1)
os_walk(dirs, fls, directory) ==
    IF dirs[directory] THEN os_walk_from(fls, directory, 1) ELSE <<>>

RECURSIVE cb_get_modification_times_from(_, _, _)
cb_get_modification_times_from(walk, i, mod_times) ==
    IF i > Len(walk) THEN mod_times
    ELSE cb_get_modification_times_from(walk, i + 1,
             DictSet(mod_times, walk[i][1], walk[i][2]))

\* get_modification_times(directory), given what the walk of it lists
cb_get_modification_times(walk) == cb_get_modification_times_from(walk, 1, <<>>)

\* faulty variant: the record is opened without the os.path.exists test
cb_load_last_mod_times_no_test(fs) ==
    IF fs[BASE_DIR_LAST_MOD_FILE] # NoFile
    THEN json_load(fs[BASE_DIR_LAST_MOD_FILE][1])
    ELSE Raised("FileNotFoundError")

\* load_last_mod_times()
cb_load_last_mod_times(fs) ==
    IF fs[BASE_DIR_LAST_MOD_FILE] # NoFile
    THEN json_load(fs[BASE_DIR_LAST_MOD_FILE][1])
    ELSE Returned(<<>>)

\* save_mod_times(mod_times): the files afterwards
cb_save_mod_times(fs, mod_times) ==
    [fs EXCEPT ![BASE_DIR_LAST_MOD_FILE] = File(json_dump(mod_times))]

RECURSIVE cb_find_modified_files_from(_, _, _, _)
cb_find_modified_files_from(last_mod_times, current_mod_times, i, acc) ==
    IF i > Len(current_mod_times) THEN acc
    ELSE LET filepath == current_mod_times[i][1]
             current_time == current_mod_times[i][2]
             last_time == DictGet(last_mod_times, filepath)
         IN  cb_find_modified_files_from(last_mod_times, current_mod_times, i + 1,
                 IF last_time = None \/ current_time > last_time[1]
                 THEN Append(acc, filepath) ELSE acc)

\* find_modified_files(last_mod_times, current_mod_times)
cb_find_modified_files(last_mod_times, current_mod_times) ==
    cb_find_modified_files_from(last_mod_times, current_mod_times, 1, <<>>)

\* faulty variant: line 58 saves the snapshot that was loaded
save_mod_times_for_base_dir_saves_last(fs, walk) == cb_load_last_mod_times(fs)

\* save_mod_times_for_base_dir(base_dir), given what the walk of base_dir
\* lists when line 46 runs: the load's result when it raises, else the dict
\* that line 58 saves
save_mod_times_for_base_dir(fs, walk) ==
    LET last_mod_times == cb_load_last_mod_times(fs)
        current_mod_times == cb_get_modification_times(walk)
    IN  IF last_mod_times.raised # "" THEN last_mod_times
        ELSE Returned(current_mod_times)

----------------------------------------------------------------------------
(* SpecDiff: the two diff functions applied to every pair of snapshots *)

DiffInputs == AllDicts(KeySet(NumKeys), Times, NumKeys)

\* the variables of the other specifications, at rest
FilterIdle ==
    /\ whitelist = <<>>
    /\ blacklist = <<>>
    /\ fpath = <<>>
    /\ accepted = None
    /\ captured = None
    /\ fpc = {}

StoreIdle ==
    /\ store = [l \in Locations |-> NoFile]
    /\ location = BASE_DIR_LAST_MOD_FILE
    /\ loaded = None
    /\ lastSaved = None
    /\ savedKeys = {}

LoopIdle ==
    /\ watch_directory = "gen"
    /\ args = None
    /\ isdir = [d \in Dirs |-> FALSE]
    /\ files = [n \in FileNames |-> 0]
    /\ pc = "idle"
    /\ base_dir_last_modified_times = <<>>
    /\ base_dir_current_modified_times = <<>>
    /\ w_modified_files = <<>>
    /\ exc = None
    /\ recordAtLoad = None
    /\ capturedDir = None
    /\ calls = <<>>
    /\ persisted = None
    /\ filesAtSave = None
    /\ stop_requested = FALSE

CaptureIdle ==
    /\ root_kind = "missing"
    /\ tree = <<>>
    /\ capture_filter = DefaultPathFilter
    /\ capture_result = None
    /\ cb_capture_result = None

SaveIdle ==
    /\ save_pc = "idle"
    /\ pending = <<>>
    /\ prior_record = NoFile

TwoIdle ==
    /\ t_args = <<>>
    /\ t_files = <<>>
    /\ t_pc = <<>>
    /\ t_last = <<>>
    /\ t_cur = <<>>
    /\ t_mod = <<>>
    /\ t_own = <<>>

DiffIdle ==
    /\ previous = <<>>
    /\ current = <<>>
    /\ modified_files = <<>>
    /\ new_files = <<>>
    /\ dpc = {}

InitDiff ==
    /\ FilterIdle
    /\ StoreIdle
    /\ LoopIdle
    /\ CaptureIdle
    /\ SaveIdle
    /\ TwoIdle
    /\ previous \in DiffInputs
    /\ current \in DiffInputs
    /\ modified_files = <<>>
    /\ new_files = <<>>
    /\ dpc = {}

CallFindModifiedFiles ==
    /\ "modified" \notin dpc
    /\ modified_files' = find_modified_files(previous, current)
    /\ dpc' = dpc \cup {"modified"}
    /\ UNCHANGED <<previous, current, new_files, filterVars, storeVars, loopVars, captureVars, saveVars, twoVars>>

CallFindNewFiles ==
    /\ "new" \notin dpc
    /\ new_files' = find_new_files(previous, current)
    /\ dpc' = dpc \cup {"new"}
    /\ UNCHANGED <<previous, current, modified_files, filterVars, storeVars, loopVars, captureVars, saveVars, twoVars>>

NextDiff == CallFindModifiedFiles \/ CallFindNewFiles

SpecDiff == InitDiff /\ [][NextDiff]_vars

\* the timestamp of a key of d
TimeOf(d, p) == DictGet(d, p)[1]

C3_NewExact ==
    /\ "new" \in dpc =>
           ListSet(new_files) = DictKeys(current) \ DictKeys(previous)
    /\ \A p \in DictKeys(previous) \ DictKeys(current) :
           p \notin ListSet(new_files) /\ p \notin ListSet(modified_files)

\* both calls returned, with one path created and one path deleted
C3_Witness ==
    /\ dpc = {"modified", "new"}
    /\ new_files # <<>>
    /\ DictKeys(previous) \ DictKeys(current) # {}
    /\ DictKeys(previous) \cap DictKeys(current) = {}

\* C4: added is a subset of changedOrAdded, and both are empty when previous
\* and current are the same mapping.
C4_AddedSubset ==
    dpc = {"modified", "new"} =>
        /\ ListSet(new_files) \subseteq ListSet(modified_files)
        /\ DictEq(previous, current) =>
               new_files = <<>> /\ modified_files = <<>>

\* both calls returned: once with a new path, and (other disjunct) once on a
\* non-empty snapshot compared with itself
C4_Witness ==
    /\ dpc = {"modified", "new"}
    /\ new_files # <<>>
    /\ Len(modified_files) > Len(new_files)

C4_WitnessSame ==
    /\ dpc = {"modified", "new"}
    /\ DictEq(previous, current)
    /\ Len(current) = NumKeys

----------------------------------------------------------------------------
(* SpecFilter: a filter built from every pair of pattern lists, applied to *)
(* every path; and a capture with the default filter.                      *)

StringsUpTo(chars, n) == UNION {[1..m -> chars] : m \in 0..n}
PatternLists == UNION {[1..m -> PatternStrings] : m \in 0..MaxPatterns}

InitFilter ==
    /\ DiffIdle
    /\ StoreIdle
    /\ LoopIdle
    /\ CaptureIdle
    /\ SaveIdle
    /\ TwoIdle
    /\ whitelist \in PatternLists
    /\ blacklist \in PatternLists
    /\ fpath \in StringsUpTo(PathChars, MaxPathLen)
    /\ accepted = None
    /\ captured = None
    /\ fpc = {}

\* path_filter = make_regex_filter(whitelist, blacklist); path_filter(fpath)
CallRegexFilter ==
    /\ "filter" \notin fpc
    /\ accepted' = Some(call_filter(make_regex_filter(whitelist, blacklist), fpath))
    /\ fpc' = fpc \cup {"filter"}
    /\ UNCHANGED <<whitelist, blacklist, fpath, captured, diffVars, storeVars, loopVars, captureVars, saveVars, twoVars>>

\* get_modification_times(directory) on a directory whose one file is fpath
CaptureWithDefaultFilter ==
    /\ "capture" \notin fpc
    /\ \E t \in Times :
           captured' = Some(get_modification_times(<< <<fpath, t>> >>, DefaultPathFilter))
    /\ fpc' = fpc \cup {"capture"}
    /\ UNCHANGED <<whitelist, blacklist, fpath, accepted, diffVars, storeVars, loopVars, captureVars, saveVars, twoVars>>

NextFilter == CallRegexFilter \/ CaptureWithDefaultFilter

SpecFilter == InitFilter /\ [][NextFilter]_vars

\* some pattern of the list occurs in the path
Occurs(patterns, path) ==
    \E k \in 1..Len(patterns) : re_search(patterns[k], path)

\* C5: the filter built by make_regex_filter(whitelist, blacklist) accepts a
\* path iff some whitelist pattern occurs in it and no blacklist pattern
\* does; a path matching both is rejected.
C5_FilterIff ==
    "filter" \in fpc =>
        /\ accepted[1] <=> (Occurs(whitelist, fpath) /\ ~Occurs(blacklist, fpath))
        /\ (Occurs(whitelist, fpath) /\ Occurs(blacklist, fpath)) => ~accepted[1]

\* a path matched by a whitelist and by a blacklist pattern, and rejected
C5_Witness ==
    /\ "filter" \in fpc
    /\ Occurs(whitelist, fpath)
    /\ Occurs(blacklist, fpath)
    /\ accepted = Some(FALSE)

\* a path matched by the second whitelist pattern only, and accepted
C5_WitnessAccept ==
    /\ "filter" \in fpc
    /\ Len(whitelist) = 2
    /\ ~re_search(whitelist[1], fpath)
    /\ blacklist # <<>>
    /\ accepted = Some(TRUE)

\* C6 as stated: a filter built with no patterns (empty whitelist and empty
\* blacklist) accepts every path, and so does the default path_filter of
\* get_modification_times.
C6_EmptyFilterAcceptsAll ==
    /\ ("filter" \in fpc /\ whitelist = <<>> /\ blacklist = <<>>)
           => accepted = Some(TRUE)
    /\ "capture" \in fpc => HasKey(captured[1], fpath)

\* C6 amended: the default path_filter of get_modification_times accepts
\* every path, while a filter built by make_regex_filter with an empty
\* whitelist accepts no path, whatever the blacklist.
C6_DefaultAcceptsEmptyRejects ==
    /\ "capture" \in fpc => HasKey(captured[1], fpath)
    /\ ("filter" \in fpc /\ whitelist = <<>>) => accepted = Some(FALSE)

\* both calls returned: the capture with the default filter and the filter
\* built from two empty lists, on a non-empty path
C6_Witness ==
    /\ fpc = {"filter", "capture"}
    /\ whitelist = <<>>
    /\ blacklist = <<>>
    /\ Len(fpath) = MaxPathLen
    /\ captured # None
    /\ accepted # None

----------------------------------------------------------------------------
(* SpecStore: any sequence of saves and loads on one location *)

InitStore ==
    /\ DiffIdle
    /\ FilterIdle
    /\ LoopIdle
    /\ CaptureIdle
    /\ SaveIdle
    /\ TwoIdle
    /\ location \in Locations
    \* no record yet, or the record an earlier run left at the location
    /\ \E record \in {NoFile} \cup {File(json_dump(d)) : d \in DiffInputs} :
           /\ store = [l \in Locations |-> IF l = location THEN record ELSE NoFile]
           /\ savedKeys = IF record = NoFile THEN {}
                          ELSE DictKeys(json_load(record[1]).value)
    /\ loaded = None
    /\ lastSaved = None

SaveModTimes ==
    \E mod_times \in DiffInputs :
        /\ store' = save_mod_times(store, mod_times, location)
        /\ lastSaved' = Some(mod_times)
        /\ savedKeys' = savedKeys \cup DictKeys(mod_times)
        /\ loaded' = None
        /\ UNCHANGED <<location, diffVars, filterVars, loopVars, captureVars, saveVars, twoVars>>

LoadLastModTimes ==
    /\ loaded = None
    /\ loaded' = Some(load_last_mod_times(store, location))
    /\ UNCHANGED <<store, location, lastSaved, savedKeys, diffVars, filterVars, loopVars, captureVars, saveVars, twoVars>>

NextStore == SaveModTimes \/ LoadLastModTimes

SpecStore == InitStore /\ [][NextStore]_vars

\* C7: after any sequence of saves on a location, load on it returns a
\* mapping equal to the one passed to the most recent save; no key or value
\* of an earlier save survives.
C7_LoadReturnsLastSaved ==
    (loaded # None /\ lastSaved # None) =>
        /\ loaded[1].raised = ""
        /\ DictEq(loaded[1].value, lastSaved[1])
        /\ \A k \in savedKeys \ DictKeys(lastSaved[1]) :
               ~HasKey(loaded[1].value, k)
        \* the copies in directory_modifiction_callback_system.py, on their
        \* own location
        /\ LET r == cb_load_last_mod_times(cb_save_mod_times(store, lastSaved[1]))
           IN  r.raised = "" /\ DictEq(r.value, lastSaved[1])

\* a load after a save that dropped a key an earlier save had written and
\* changed the value of another
C7_Witness ==
    /\ loaded # None
    /\ lastSaved # None
    /\ savedKeys \ DictKeys(lastSaved[1]) # {}
    /\ Len(lastSaved[1]) > 0
    /\ loaded[1].value = lastSaved[1]

----------------------------------------------------------------------------
(* Spec: start_watching_directory(watch_directory, modification_callback), *)
(* one action per step of it, interleaved with the programs that create,   *)
(* rewrite and delete the files under args.base_dir.                       *)

othersIdle == <<diffVars, filterVars, location, loaded, lastSaved, savedKeys,
               captureVars, saveVars, twoVars>>
config == <<watch_directory, args, isdir>>

\* the text a save that was cut short leaves behind
TruncatedRecord == File(<<Punct("{")>>)

Init ==
    /\ DiffIdle
    /\ FilterIdle
    /\ CaptureIdle
    /\ SaveIdle
    /\ TwoIdle
    /\ location = BASE_DIR_LAST_MOD_FILE
    /\ loaded = None
    /\ lastSaved = None
    /\ savedKeys = {}
    /\ watch_directory \in Dirs
    /\ args \in {None} \cup {Some([base_dir |-> d]) : d \in Dirs}
    /\ isdir \in [Dirs -> BOOLEAN]
    /\ files \in [FileNames -> 0..MaxTime]
    \* files exist only under a directory that exists
    /\ (args = None \/ ~isdir[args[1].base_dir]) => files = [n \in FileNames |-> 0]
    /\ \E record \in {NoFile, TruncatedRecord} :
           store = [l \in Locations |->
                       IF l = BASE_DIR_LAST_MOD_FILE THEN record ELSE NoFile]
    /\ pc = "start"
    /\ base_dir_last_modified_times = <<>>
    /\ base_dir_current_modified_times = <<>>
    /\ w_modified_files = <<>>
    /\ exc = None
    /\ recordAtLoad = None
    /\ capturedDir = None
    /\ calls = <<>>
    /\ persisted = None
    /\ filesAtSave = None
    /\ stop_requested = FALSE

program == <<pc, base_dir_last_modified_times, base_dir_current_modified_times,
             w_modified_files, exc, recordAtLoad, capturedDir, calls, persisted,
             store>>

\* the call is still running: what other programs do to the files after it
\* ended is of no consequence
Running == pc \notin {"returned", "crashed"}

\* another program creates a file under args.base_dir
CreateFile ==
    /\ Running
    /\ args # None /\ isdir[args[1].base_dir]
    /\ \E n \in FileNames, t \in Times :
           /\ files[n] = 0
           /\ files' = [files EXCEPT ![n] = t]
    /\ UNCHANGED <<program, config, othersIdle, filesAtSave, stop_requested>>

\* another program rewrites a file (or sets its mtime)
ModifyFile ==
    /\ Running
    /\ \E n \in FileNames, t \in Times :
           /\ files[n] > 0
           /\ files[n] # t
           /\ files' = [files EXCEPT ![n] = t]
    /\ UNCHANGED <<program, config, othersIdle, filesAtSave, stop_requested>>

\* another program deletes a file
DeleteFile ==
    /\ Running
    /\ \E n \in FileNames :
           /\ files[n] > 0
           /\ files' = [files EXCEPT ![n] = 0]
    /\ UNCHANGED <<program, config, othersIdle, filesAtSave, stop_requested>>

\* lines 62-65: the test of watch_directory
Start ==
    /\ pc = "start"
    /\ IF ~isdir[watch_directory]
       THEN pc' = "returned"     \* line 63 prints, the function returns None
       ELSE pc' = "load"
    /\ UNCHANGED <<base_dir_last_modified_times, base_dir_current_modified_times,
                   w_modified_files, exc, recordAtLoad, capturedDir, calls,
                   persisted, store, files, config, othersIdle, filesAtSave, stop_requested>>

\* line 67
Load ==
    /\ pc = "load"
    /\ recordAtLoad' = Some(store[BASE_DIR_LAST_MOD_FILE])
    /\ LET r == cb_load_last_mod_times(store)
       IN  IF r.raised # ""
           THEN /\ pc' = "crashed"
                /\ exc' = Some([type |-> r.raised, at |-> "load"])
                /\ UNCHANGED base_dir_last_modified_times
           ELSE /\ pc' = "capture"
                /\ base_dir_last_modified_times' = r.value
                /\ UNCHANGED exc
    /\ UNCHANGED <<base_dir_current_modified_times, w_modified_files,
                   capturedDir, calls, persisted, store, files, config,
                   othersIdle, filesAtSave, stop_requested>>

\* lines 68-71 and 81-82: the capture of args.base_dir, the diff and the test
\* of its result
Capture ==
    /\ pc = "capture"
    /\ IF args = None
       THEN /\ pc' = "crashed"
            /\ exc' = Some([type |-> "NameError", at |-> "capture"])
            /\ UNCHANGED <<base_dir_current_modified_times, w_modified_files,
                           capturedDir>>
       ELSE LET cur == cb_get_modification_times(
                           os_walk(isdir, files, args[1].base_dir))
                mod == cb_find_modified_files(base_dir_last_modified_times, cur)
            IN  /\ base_dir_current_modified_times' = cur
                /\ w_modified_files' = mod
                /\ capturedDir' = Some(args[1].base_dir)
                /\ pc' = IF mod # <<>> THEN "act" ELSE "sleep"
                /\ UNCHANGED exc
    /\ UNCHANGED <<base_dir_last_modified_times, recordAtLoad, calls, persisted,
                   store, files, config, othersIdle, filesAtSave, stop_requested>>

\* line 68, lines 16-19: a file that os.walk listed is deleted before
\* os.path.getmtime reads it; FileNotFoundError leaves the loop
CaptureRaises ==
    /\ pc = "capture"
    /\ args # None
    /\ \E n \in FileNames :
           /\ files[n] > 0
           /\ files' = [files EXCEPT ![n] = 0]
    /\ capturedDir' = Some(args[1].base_dir)
    /\ pc' = "crashed"
    /\ exc' = Some([type |-> "FileNotFoundError", at |-> "capture"])
    /\ UNCHANGED <<base_dir_last_modified_times, base_dir_current_modified_times,
                   w_modified_files, recordAtLoad, calls, persisted, store,
                   config, othersIdle, filesAtSave, stop_requested>>

\* lines 72-78: the files are handed to
\* copy_specific_files_to_the_generated_directory, which returns
ActReturns ==
    /\ pc = "act"
    /\ calls' = Append(calls,
           [fn |-> "copy_specific_files_to_the_generated_directory",
            arg |-> w_modified_files])
    /\ pc' = "save"
    /\ UNCHANGED <<base_dir_last_modified_times, base_dir_current_modified_times,
                   w_modified_files, exc, recordAtLoad, capturedDir, persisted,
                   store, files, config, othersIdle, filesAtSave, stop_requested>>

\* line 77: the call raises (the name is not defined in the module, or the
\* copy fails); nothing in the loop catches it
ActRaises ==
    /\ pc = "act"
    /\ calls' = Append(calls,
           [fn |-> "copy_specific_files_to_the_generated_directory",
            arg |-> w_modified_files])
    /\ pc' = "crashed"
    /\ exc' = Some([type |-> "Exception", at |-> "act"])
    /\ UNCHANGED <<base_dir_last_modified_times, base_dir_current_modified_times,
                   w_modified_files, recordAtLoad, capturedDir, persisted,
                   store, files, config, othersIdle, filesAtSave, stop_requested>>

\* line 80: save_mod_times_for_base_dir(args.base_dir) loads the record and
\* walks the directory again, and saves what that walk finds
SaveForBaseDir ==
    /\ pc = "save"
    /\ LET r == save_mod_times_for_base_dir(store,
                     os_walk(isdir, files, args[1].base_dir))
       IN  IF r.raised # ""
           THEN /\ pc' = "crashed"
                /\ exc' = Some([type |-> r.raised, at |-> "save"])
                /\ UNCHANGED <<store, persisted, filesAtSave>>
           ELSE /\ store' = cb_save_mod_times(store, r.value)
                /\ persisted' = Some(r.value)
                /\ filesAtSave' = Some(files)
                /\ pc' = "sleep"
                /\ UNCHANGED exc
    /\ UNCHANGED <<base_dir_last_modified_times, base_dir_current_modified_times,
                   w_modified_files, recordAtLoad, capturedDir, calls, files,
                   config, othersIdle, stop_requested>>

\* line 80, lines 46 and 16-19: the same failure in the second walk
SaveCaptureRaises ==
    /\ pc = "save"
    /\ \E n \in FileNames :
           /\ files[n] > 0
           /\ files' = [files EXCEPT ![n] = 0]
    /\ pc' = "crashed"
    /\ exc' = Some([type |-> "FileNotFoundError", at |-> "save"])
    /\ UNCHANGED <<base_dir_last_modified_times, base_dir_current_modified_times,
                   w_modified_files, recordAtLoad, capturedDir, calls, persisted,
                   store, config, othersIdle, filesAtSave, stop_requested>>

\* line 83, and the return to line 66: the locals are dead from here on (lines
\* 67-69 assign them before they are read), and the next cycle's history
\* starts empty
Sleep ==
    /\ pc = "sleep"
    /\ pc' = "load"
    /\ base_dir_last_modified_times' = <<>>
    /\ base_dir_current_modified_times' = <<>>
    /\ w_modified_files' = <<>>
    /\ recordAtLoad' = None
    /\ capturedDir' = None
    /\ calls' = <<>>
    /\ persisted' = None
    /\ UNCHANGED <<exc, store, files, config, othersIdle, filesAtSave, stop_requested>>

\* the caller asks the loop to stop; nothing in lines 61-83 reads the
\* request
RequestStop ==
    /\ Running
    /\ ~stop_requested
    /\ stop_requested' = TRUE
    /\ UNCHANGED <<program, files, config, othersIdle, filesAtSave>>

Next ==
    \/ Start \/ Load \/ Capture \/ CaptureRaises \/ ActReturns \/ ActRaises
    \/ SaveForBaseDir \/ SaveCaptureRaises \/ Sleep
    \/ CreateFile \/ ModifyFile \/ DeleteFile \/ RequestStop

Spec == Init /\ [][Next]_vars

\* a cycle that found changes has reached its end (line 83)
ChangedCycleDone == pc = "sleep" /\ w_modified_files # <<>>

\* C1 as stated: in a cycle whose diff is not empty, modification_callback is
\* called exactly once, with the cycle's change set; the snapshot persisted
\* is the one the cycle captured and diffed; and nothing is persisted before
\* the callback was called.
C1_CallbackThenPersistDiffed ==
    /\ ChangedCycleDone =>
           /\ calls = <<[fn |-> "modification_callback", arg |-> w_modified_files]>>
           /\ persisted # None
           /\ DictEq(persisted[1], base_dir_current_modified_times)
    /\ persisted # None => calls # <<>>

\* the second half of C1 alone, whichever function the cycle called: the
\* snapshot persisted is the one the cycle captured and diffed
C1_PersistsDiffedSnapshot ==
    ChangedCycleDone =>
        /\ Len(calls) = 1
        /\ calls[1].arg = w_modified_files
        /\ persisted # None
        /\ DictEq(persisted[1], base_dir_current_modified_times)

\* C8: a load that finds no record returns the empty mapping, raises nothing
\* and creates no record; the cycle then reports every captured file.
C8_NoRecordLoadsEmpty ==
    recordAtLoad = Some(NoFile) =>
        /\ ~(pc = "crashed" /\ exc[1].at = "load")
        /\ base_dir_last_modified_times = <<>>
        /\ persisted = None => store[BASE_DIR_LAST_MOD_FILE] = NoFile
        /\ capturedDir # None =>
               /\ ListSet(w_modified_files) = DictKeys(base_dir_current_modified_times)
               /\ Len(w_modified_files) = Len(base_dir_current_modified_times)

\* a first cycle that captured every file of the directory and reports them
C8_Witness ==
    /\ recordAtLoad = Some(NoFile)
    /\ pc = "act"
    /\ Len(base_dir_current_modified_times) = Len(WalkOrder)
    /\ Len(w_modified_files) = Len(WalkOrder)
    /\ store[BASE_DIR_LAST_MOD_FILE] = NoFile

\* C9 as stated: when watch_directory is no directory the call ends without
\* a load, a capture, a call or a save; and the directory a cycle captures
\* is the directory that was validated.
C9_ValidatedDirIsCapturedDir ==
    /\ pc = "returned" =>
           /\ recordAtLoad = None
           /\ capturedDir = None
           /\ calls = <<>>
           /\ persisted = None
    /\ capturedDir # None => capturedDir[1] = watch_directory

\* C10 as stated: a failure of the function called on a change does not end
\* the loop.
C10_CallbackFailureIsolated ==
    ~(pc = "crashed" /\ exc # None /\ exc[1].at = "act")

\* the record the cycle read exists and is no JSON text
CorruptRecordLoaded ==
    /\ recordAtLoad # None
    /\ recordAtLoad[1] # NoFile
    /\ ~json_well_formed(recordAtLoad[1][1])

\* C11 as stated: a record that exists but cannot be parsed does not end the
\* loop; the load fails with CorruptSnapshot, and the cycle goes on with an
\* empty previous snapshot.
C11_CorruptRecordKeepsRunning ==
    CorruptRecordLoaded =>
        /\ pc # "crashed"
        /\ base_dir_last_modified_times = <<>>

----------------------------------------------------------------------------
(* SpecCapture: get_modification_times applied to every small directory    *)
(* tree and filter.  A path is the string os.path.join builds; an entry is *)
(* what os.scandir and os.stat find at it.                                 *)

\* the directory argument, and the names a directory can hold, in the order
\* os.scandir lists them
TreeRoot == <<"d">>
TreeNames == <<"a", "b">>
\* directories nest this deep below the root
TreeDepth == 2

\* os.path.join(dirpath, name)
os_path_join(dirpath, name) == dirpath \o <<"/", name>>

RECURSIVE PathsBelow(_, _)
\* every path at most depth levels below dirpath
PathsBelow(dirpath, depth) ==
    IF depth = 0 THEN {}
    ELSE UNION {{os_path_join(dirpath, TreeNames[i])}
                \cup PathsBelow(os_path_join(dirpath, TreeNames[i]), depth - 1) :
                i \in 1..Len(TreeNames)}

TreePaths == PathsBelow(TreeRoot, TreeDepth)
Parent(p) == SubSeq(p, 1, Len(p) - 2)

NoEntry == [kind |-> "none", mtime |-> 0]
RegularFile(t) == [kind |-> "file", mtime |-> t]
Directory == [kind |-> "dir", mtime |-> 0]
\* an entry os.scandir lists that os.stat fails on: a dangling symbolic
\* link, a file in a directory without search permission, or a file
\* that is removed after the listing
Unstatable == [kind |-> "unstatable", mtime |-> 0]
Entries == {NoEntry, Directory, Unstatable} \cup {RegularFile(t) : t \in Times}

\* the trees: entries exist only inside directories, and directories only
\* above the lowest level
Trees ==
    {tr \in [TreePaths -> Entries] :
        \A p \in TreePaths :
            /\ (Len(p) = Len(TreeRoot) + 2 * TreeDepth) => tr[p] # Directory
            /\ (Parent(p) # TreeRoot /\ tr[Parent(p)] # Directory) => tr[p] = NoEntry}

RECURSIVE os_walk_files(_, _, _)
\* the filenames os.walk yields for dirpath, joined: every entry that is
\* no directory
os_walk_files(tr, dirpath, i) ==
    IF i > Len(TreeNames) THEN <<>>
    ELSE LET filepath == os_path_join(dirpath, TreeNames[i])
         IN  (IF filepath \in DOMAIN tr /\ tr[filepath].kind \in {"file", "unstatable"}
              THEN << <<filepath, tr[filepath]>> >>
              ELSE <<>>)
             \o os_walk_files(tr, dirpath, i + 1)

\* faulty variant: the walk stays in the top directory
os_walk_tree_top_only(tr, dirpath) == os_walk_files(tr, dirpath, 1)

RECURSIVE os_walk_tree(_, _)
RECURSIVE os_walk_subdirs(_, _, _)
\* os.walk(directory), top-down: the files of dirpath, then those of each
\* of its subdirectories
os_walk_tree(tr, dirpath) ==
    os_walk_files(tr, dirpath, 1) \o os_walk_subdirs(tr, dirpath, 1)
os_walk_subdirs(tr, dirpath, i) ==
    IF i > Len(TreeNames) THEN <<>>
    ELSE LET sub == os_path_join(dirpath, TreeNames[i])
         IN  (IF sub \in DOMAIN tr /\ tr[sub].kind = "dir"
              THEN os_walk_tree(tr, sub)
              ELSE <<>>)
             \o os_walk_subdirs(tr, dirpath, i + 1)

\* os.walk on a directory argument that is missing or no directory: the
\* error of os.scandir is ignored (onerror is None) and nothing is yielded
os_walk_arg(kind, tr, directory) ==
    IF kind = "dir" THEN os_walk_tree(tr, directory) ELSE <<>>

\* the <<filepath, mtime>> of the listed entries os.path.getmtime succeeds on
Statted(listing) ==
    LET ok == SelectSeq(listing, LAMBDA e : e[2].kind = "file")
    IN  [i \in 1..Len(ok) |-> <<ok[i][1], ok[i][2].mtime>>]

\* main.get_modification_times(directory, path_filter) on a file system:
\* os.path.getmtime raises on the first accepted entry it cannot stat
get_modification_times_call(kind, tr, directory, pf) ==
    LET listing == os_walk_arg(kind, tr, directory)
    IN  IF \E i \in 1..Len(listing) :
               listing[i][2].kind = "unstatable" /\ call_filter(pf, listing[i][1])
        THEN Raised("OSError")
        ELSE Returned(get_modification_times(Statted(listing), pf))

\* the callback module's get_modification_times(directory): no filter
cb_get_modification_times_call(kind, tr, directory) ==
    LET listing == os_walk_arg(kind, tr, directory)
    IN  IF \E i \in 1..Len(listing) : listing[i][2].kind = "unstatable"
        THEN Raised("OSError")
        ELSE Returned(cb_get_modification_times(Statted(listing)))

\* the filters drawn: the default, and one pattern at most in each list
ShortPatternLists == {<<>>} \cup {<<r>> : r \in PatternStrings}
CaptureFilters ==
    {DefaultPathFilter}
    \cup {make_regex_filter(wl, bl) : wl \in ShortPatternLists, bl \in ShortPatternLists}

InitCapture ==
    /\ DiffIdle
    /\ FilterIdle
    /\ StoreIdle
    /\ LoopIdle
    /\ SaveIdle
    /\ TwoIdle
    /\ root_kind \in {"dir", "file", "missing"}
    /\ tree \in Trees
    \* nothing lies below a path that is no directory
    /\ root_kind # "dir" => \A p \in TreePaths : tree[p] = NoEntry
    /\ capture_filter \in CaptureFilters
    /\ capture_result = None
    /\ cb_capture_result = None

\* get_modification_times(TreeRoot, capture_filter) of main.py
CallGetModificationTimes ==
    /\ capture_result = None
    /\ capture_result' =
           Some(get_modification_times_call(root_kind, tree, TreeRoot, capture_filter))
    /\ UNCHANGED <<root_kind, tree, capture_filter, cb_capture_result,
                   diffVars, filterVars, storeVars, loopVars, saveVars, twoVars>>

\* get_modification_times(TreeRoot) of the callback module
CallCbGetModificationTimes ==
    /\ cb_capture_result = None
    /\ cb_capture_result' =
           Some(cb_get_modification_times_call(root_kind, tree, TreeRoot))
    /\ UNCHANGED <<root_kind, tree, capture_filter, capture_result,
                   diffVars, filterVars, storeVars, loopVars, saveVars, twoVars>>

NextCapture == CallGetModificationTimes \/ CallCbGetModificationTimes

SpecCapture == InitCapture /\ [][NextCapture]_vars

\* the regular files anywhere under the root: every directory above them
\* up to the root exists
RECURSIVE UnderRoot(_)
UnderRoot(p) ==
    \/ Parent(p) = TreeRoot
    \/ /\ Parent(p) \in TreePaths
       /\ tree[Parent(p)] = Directory
       /\ UnderRoot(Parent(p))
RegularFilesUnderRoot ==
    {p \in TreePaths : root_kind = "dir" /\ tree[p].kind = "file" /\ UnderRoot(p)}

\* what the filter is to accept: every path by default; else the paths in
\* which a whitelist pattern occurs and no blacklist pattern does
Accepts(pf, p) ==
    \/ pf = DefaultPathFilter
    \/ /\ pf # DefaultPathFilter
       /\ Occurs(pf.whitelist_re, p)
       /\ ~Occurs(pf.blacklist_re, p)
AcceptedFiles == {p \in RegularFilesUnderRoot : Accepts(capture_filter, p)}

\* C12: the mapping get_modification_times(D, F) returns has as its keys
\* exactly the paths of the regular files anywhere under D that F accepts,
\* and maps each to the file's modification time.
C12_CaptureExact ==
    (capture_result # None /\ capture_result[1].raised = "") =>
        LET mod_times == capture_result[1].value
        IN  /\ IsDict(mod_times)
            /\ DictKeys(mod_times) = AcceptedFiles
            /\ \A p \in AcceptedFiles : DictGet(mod_times, p) = Some(tree[p].mtime)

\* a capture that took a file of a subdirectory and left out a file the
\* filter rejects
C12_Witness ==
    /\ capture_result # None
    /\ capture_result[1].raised = ""
    /\ \E p \in AcceptedFiles : Parent(p) # TreeRoot
    /\ \E p \in RegularFilesUnderRoot :
           /\ p \notin AcceptedFiles
           /\ ~HasKey(capture_result[1].value, p)

\* C13 as stated: on a directory argument that is missing or no directory,
\* get_modification_times fails with DirectoryNotFound and returns no
\* mapping, in either module.
C13_NoDirectoryRaises ==
    root_kind # "dir" =>
        /\ capture_result # None =>
               capture_result[1] = Raised("DirectoryNotFound")
        /\ cb_capture_result # None =>
               cb_capture_result[1] = Raised("DirectoryNotFound")

\* some entry under the root cannot be read
SomeEntryUnstatable ==
    \E p \in TreePaths : tree[p] = Unstatable /\ UnderRoot(p)

\* C14 as stated: when an entry cannot be read, the capture still completes
\* and returns the timestamps of all other accepted files, in either
\* module.
C14_UnreadableEntrySkipped ==
    (root_kind = "dir" /\ SomeEntryUnstatable) =>
        /\ capture_result # None =>
               /\ capture_result[1].raised = ""
               /\ DictKeys(capture_result[1].value) = AcceptedFiles
               /\ \A p \in AcceptedFiles :
                      DictGet(capture_result[1].value, p) = Some(tree[p].mtime)
        /\ cb_capture_result # None =>
               /\ cb_capture_result[1].raised = ""
               /\ DictKeys(cb_capture_result[1].value) = RegularFilesUnderRoot
               /\ \A p \in RegularFilesUnderRoot :
                      DictGet(cb_capture_result[1].value, p) = Some(tree[p].mtime)

----------------------------------------------------------------------------
(* SpecSave: save_mod_times step by step, as a reader of the location or   *)
(* an interruption meets it.  open(mod_times_path, "w") creates or         *)
(* truncates the file; json.dump then writes the text piece by piece; the  *)
(* with statement closes the file.                                         *)

\* open(mod_times_path, "w"): the file exists and is empty
open_w(fs, mod_times_path) == [fs EXCEPT ![mod_times_path] = File(<<>>)]

\* f.write(chunk) reaching the file
write_chunk(fs, mod_times_path, chunk) ==
    [fs EXCEPT ![mod_times_path] = File(Append(fs[mod_times_path][1], chunk))]

InitSave ==
    /\ DiffIdle
    /\ FilterIdle
    /\ LoopIdle
    /\ CaptureIdle
    /\ TwoIdle
    /\ location \in Locations
    \* no record yet, or the record an earlier save left at the location
    /\ \E record \in {NoFile} \cup {File(json_dump(d)) : d \in DiffInputs} :
           store = [l \in Locations |-> IF l = location THEN record ELSE NoFile]
    /\ savedKeys = {}
    /\ loaded = None
    /\ lastSaved = None
    /\ SaveIdle

\* save_mod_times(mod_times, location) is called: line 229 of main.py (31 of
\* the callback module) opens the file
SaveOpens ==
    /\ save_pc = "idle"
    /\ \E mod_times \in DiffInputs :
           /\ lastSaved' = Some(mod_times)
           /\ pending' = json_dump(mod_times)
    /\ prior_record' = store[location]
    /\ store' = open_w(store, location)
    /\ save_pc' = "writing"
    /\ loaded' = None
    /\ UNCHANGED <<location, savedKeys, diffVars, filterVars, loopVars,
                   captureVars, twoVars>>

\* line 230 (32): json.dump writes the next piece of the text
SaveWrites ==
    /\ save_pc = "writing"
    /\ pending # <<>>
    /\ store' = write_chunk(store, location, Head(pending))
    /\ pending' = Tail(pending)
    /\ UNCHANGED <<location, loaded, lastSaved, savedKeys, save_pc, prior_record,
                   diffVars, filterVars, loopVars, captureVars, twoVars>>

\* the with statement ends: the file is closed and the call returns
SaveCloses ==
    /\ save_pc = "writing"
    /\ pending = <<>>
    /\ save_pc' = "idle"
    /\ UNCHANGED <<store, location, loaded, lastSaved, savedKeys, pending,
                   prior_record, diffVars, filterVars, loopVars, captureVars,
                   twoVars>>

\* the save is cancelled or the process ends while the file is open: what
\* was written stays, the rest is never written
SaveInterrupted ==
    /\ save_pc = "writing"
    /\ save_pc' = "interrupted"
    /\ pending' = <<>>
    /\ UNCHANGED <<store, location, loaded, lastSaved, savedKeys, prior_record,
                   diffVars, filterVars, loopVars, captureVars, twoVars>>

\* load_last_mod_times(location) by another reader, at any moment
LoadMeanwhile ==
    /\ loaded = None
    /\ loaded' = Some(load_last_mod_times(store, location))
    /\ UNCHANGED <<store, location, lastSaved, savedKeys, saveVars, diffVars,
                   filterVars, loopVars, captureVars, twoVars>>

NextSave ==
    SaveOpens \/ SaveWrites \/ SaveCloses \/ SaveInterrupted \/ LoadMeanwhile

SpecSave == InitSave /\ [][NextSave]_vars

\* C15 as stated: while a save is in progress and after it was interrupted,
\* the record at the location is the complete record from before the save
\* or the complete new one, and a load returns one of the two snapshots.
C15_SaveAllOrNothing ==
    save_pc \in {"writing", "interrupted"} =>
        /\ store[location] \in {prior_record, File(json_dump(lastSaved[1]))}
        /\ loaded # None =>
               /\ loaded[1].raised = ""
               /\ \/ DictEq(loaded[1].value, lastSaved[1])
                  \/ /\ prior_record # NoFile
                     /\ DictEq(loaded[1].value, json_load(prior_record[1]).value)
                  \/ prior_record = NoFile /\ loaded[1].value = <<>>

----------------------------------------------------------------------------
(* SpecTwoLoops: two calls of start_watching_directory running side by     *)
(* side in one working directory, past the test of line 62, with the       *)
(* function called on a change returning.  Each call has its own locals;   *)
(* the record is the file BASE_DIR_LAST_MOD_FILE names (line 11), a        *)
(* relative path the module fixes for every call.                          *)

Loops == {1, 2}
\* every directory exists
AllDirs == [d \in Dirs |-> TRUE]
\* what the loop's capture of args.base_dir walks
LoopWalk(i) == os_walk(AllDirs, t_files[t_args[i]], t_args[i])

InitTwoLoops ==
    /\ DiffIdle
    /\ FilterIdle
    /\ StoreIdle
    /\ LoopIdle
    /\ CaptureIdle
    /\ SaveIdle
    /\ t_args \in [Loops -> Dirs]
    /\ t_files \in [Dirs -> [FileNames -> 0..MaxTime]]
    /\ t_pc = [i \in Loops |-> "load"]
    /\ t_last = [i \in Loops |-> <<>>]
    /\ t_cur = [i \in Loops |-> <<>>]
    /\ t_mod = [i \in Loops |-> <<>>]
    /\ t_own = [i \in Loops |-> None]

twoRest == <<diffVars, filterVars, location, loaded, lastSaved, savedKeys,
             loopVars, captureVars, saveVars, t_args, t_files>>

\* line 67
TwoLoad(i) ==
    /\ t_pc[i] = "load"
    /\ LET r == cb_load_last_mod_times(store)
       IN  IF r.raised # ""
           THEN /\ t_pc' = [t_pc EXCEPT ![i] = "crashed"]
                /\ UNCHANGED t_last
           ELSE /\ t_pc' = [t_pc EXCEPT ![i] = "capture"]
                /\ t_last' = [t_last EXCEPT ![i] = r.value]
    /\ UNCHANGED <<t_cur, t_mod, t_own, store, twoRest>>

\* lines 68-71 and 81-82
TwoCapture(i) ==
    /\ t_pc[i] = "capture"
    /\ LET cur == cb_get_modification_times(LoopWalk(i))
           mod == cb_find_modified_files(t_last[i], cur)
       IN  /\ t_cur' = [t_cur EXCEPT ![i] = cur]
           /\ t_mod' = [t_mod EXCEPT ![i] = mod]
           /\ t_pc' = [t_pc EXCEPT ![i] = IF mod # <<>> THEN "act" ELSE "sleep"]
    /\ UNCHANGED <<t_last, t_own, store, twoRest>>

\* lines 72-78
TwoAct(i) ==
    /\ t_pc[i] = "act"
    /\ t_pc' = [t_pc EXCEPT ![i] = "save"]
    /\ UNCHANGED <<t_last, t_cur, t_mod, t_own, store, twoRest>>

\* line 80
TwoSave(i) ==
    /\ t_pc[i] = "save"
    /\ LET r == save_mod_times_for_base_dir(store, LoopWalk(i))
       IN  IF r.raised # ""
           THEN /\ t_pc' = [t_pc EXCEPT ![i] = "crashed"]
                /\ UNCHANGED <<store, t_own>>
           ELSE /\ store' = cb_save_mod_times(store, r.value)
                /\ t_own' = [t_own EXCEPT ![i] = Some(r.value)]
                /\ t_pc' = [t_pc EXCEPT ![i] = "sleep"]
    /\ UNCHANGED <<t_last, t_cur, t_mod, twoRest>>

\* line 83, and the return to line 66
TwoSleep(i) ==
    /\ t_pc[i] = "sleep"
    /\ t_pc' = [t_pc EXCEPT ![i] = "load"]
    /\ t_last' = [t_last EXCEPT ![i] = <<>>]
    /\ t_cur' = [t_cur EXCEPT ![i] = <<>>]
    /\ t_mod' = [t_mod EXCEPT ![i] = <<>>]
    /\ UNCHANGED <<t_own, store, twoRest>>

NextTwoLoops ==
    \E i \in Loops :
        TwoLoad(i) \/ TwoCapture(i) \/ TwoAct(i) \/ TwoSave(i) \/ TwoSleep(i)

SpecTwoLoops == InitTwoLoops /\ [][NextTwoLoops]_vars

\* the snapshot a loop running alone would load: the one it saved last,
\* the empty one before its first save
OwnSnapshot(i) == IF t_own[i] = None THEN <<>> ELSE t_own[i][1]

\* C16 as stated: of two loops that capture two different directories,
\* each loads only the snapshot it saved itself, and reports the change set
\* it would report if the other loop were not running.
C16_LoopsShareNothing ==
    t_args[1] # t_args[2] =>
        \A i \in Loops :
            /\ t_pc[i] \in {"capture", "act", "save"} =>
                   DictEq(t_last[i], OwnSnapshot(i))
            /\ t_pc[i] \in {"act", "save"} =>
                   t_mod[i] = cb_find_modified_files(OwnSnapshot(i), t_cur[i])

----------------------------------------------------------------------------
(* The watch loop over several cycles (Spec) *)

\* C17 as stated: a loop that stands at the top of a cycle with the stop
\* request raised starts no poll cycle: it does not go on to load.
C17_StopObservedAtCycleTop ==
    [][(stop_requested /\ pc = "load") => pc' = "load"]_vars

\* a cycle that follows a cycle that saved has captured and diffed, and has
\* not saved itself
SecondCycleDiffed ==
    /\ filesAtSave # None
    /\ persisted = None
    /\ capturedDir # None
    /\ pc \in {"act", "save", "sleep"}

\* the files the cycle captured that did not exist when the earlier cycle
\* saved, and those whose time it captured is greater than it was then
CreatedSince ==
    {n \in FileNames :
        /\ filesAtSave[1][n] = 0
        /\ HasKey(base_dir_current_modified_times, path_join(capturedDir[1], n))}
IncreasedSince ==
    {n \in FileNames :
        /\ filesAtSave[1][n] > 0
        /\ HasKey(base_dir_current_modified_times, path_join(capturedDir[1], n))
        /\ DictGet(base_dir_current_modified_times,
                   path_join(capturedDir[1], n))[1] > filesAtSave[1][n]}
\* every file the cycle captured is as it was when the earlier cycle saved
UntouchedSince ==
    \A n \in FileNames :
        DictGet(base_dir_current_modified_times, path_join(capturedDir[1], n))
            = IF filesAtSave[1][n] = 0 THEN None ELSE Some(filesAtSave[1][n])

C19_PersistedNotNewerThanDiffed ==
    persisted # None =>
        \A k \in DictKeys(persisted[1]) :
            /\ HasKey(base_dir_current_modified_times, k)
            /\ DictGet(persisted[1], k)[1]
                   <= DictGet(base_dir_current_modified_times, k)[1]

\* a cycle whose diff was empty has reached its end: it saved nothing
UnchangedCycleDone == pc = "sleep" /\ w_modified_files = <<>>

\* C20 as stated, for a cycle that found no change: after the completed
\* poll cycle the persisted snapshot the next cycle will load contains no
\* path that was absent from the cycle's capture.
C20_NoAbsentPathPersisted ==
    UnchangedCycleDone =>
        LET next_last == cb_load_last_mod_times(store)
        IN  /\ next_last.raised = ""
            /\ DictKeys(next_last.value) \subseteq
                   DictKeys(base_dir_current_modified_times)

====
